---- MODULE Spec2Model ----
(***************************************************************************)
(* A model of the VAST document package (package vast): the normalization  *)
(* pipeline VAST.Validate / VAST.SetSecure / VAST.FilterFormat /           *)
(* VAST.FilterSize over the document tree, the pure function SecureUrl,    *)
(* Extension.MarshalXML / UnmarshalXML, and the appends VAST.AddTracking / *)
(* VAST.AddClickTracking.                                                  *)
(*                                                                         *)
(* Go strings that the code inspects character by character (URIs) are     *)
(* sequences of one-character strings; strings that are only compared      *)
(* with "" or with each other (ids, event names, MIME types) are TLA+      *)
(* strings.  A nil slice and an empty slice are both the empty sequence.   *)
(***************************************************************************)
EXTENDS Integers, Sequences, FiniteSets, TLC

VARIABLES v, err, op, pre, url, secure, outs, ext, wire, dec, trail, orig

vars == <<v, err, op, pre, url, secure, outs, ext, wire, dec, trail, orig>>

(***************************************************************************)
(* Bounds of the model.                                                    *)
(***************************************************************************)
\* longest MediaFiles list of an initial document of the media family, and
\* the longest list FilterFormat is applied to
MaxMedia == 2
\* number of fragments an input of SecureUrl is assembled from
MaxFrags == 3
\* spare capacity (cap - len) of an initial MediaFiles slice
MaxExtraCap == 1
\* how many times in a row SecureUrl is applied to its own result
MaxApply == 2
\* how many AddTracking / AddClickTracking calls are made on a document
MaxAdds == 2

(***************************************************************************)
(* Strings as character sequences.                                         *)
(***************************************************************************)
RECURSIVE Flatten(_)
Flatten(ss) == IF ss = <<>> THEN <<>> ELSE Head(ss) \o Flatten(Tail(ss))

\* strings.Replace(s, old, new, -1) for a non-empty old: the non-overlapping
\* occurrences of old, found left to right, are replaced by new.
RECURSIVE StringsReplace(_, _, _)
StringsReplace(s, old, new) ==
    IF Len(s) < Len(old) THEN s
    ELSE IF SubSeq(s, 1, Len(old)) = old
         THEN new \o StringsReplace(SubSeq(s, Len(old) + 1, Len(s)), old, new)
         ELSE <<Head(s)>> \o StringsReplace(Tail(s), old, new)

\* the white space of the model's alphabet (unicode.IsSpace holds of each)
IsSpace(c) == c \in {" ", "\n", "\t"}

\* strings.TrimSpace: leading and trailing white space removed
RECURSIVE TrimLeft(_)
TrimLeft(s) == IF s # <<>> /\ IsSpace(Head(s)) THEN TrimLeft(Tail(s)) ELSE s

RECURSIVE TrimRight(_)
TrimRight(s) ==
    IF s # <<>> /\ IsSpace(s[Len(s)]) THEN TrimRight(SubSeq(s, 1, Len(s) - 1)) ELSE s

TrimSpace(s) == TrimRight(TrimLeft(s))

HasPrefix(s, p) == Len(s) >= Len(p) /\ SubSeq(s, 1, Len(p)) = p

sHTTP == <<"h", "t", "t", "p", ":">>
sHTTPS == <<"h", "t", "t", "p", "s", ":">>
sSlashes == <<"/", "/">>
sHTTPPrefix == <<"h", "t", "t", "p", ":", "/", "/">>
sHTTPSPrefix == <<"h", "t", "t", "p", "s", ":", "/", "/">>

(***************************************************************************)
(* SecureUrl                                                               *)
(***************************************************************************)
\* SecureUrl without the removal of the tab characters
SecureUrlKeepTab(u, s) ==
    LET u1 == StringsReplace(u, sHTTP, <<>>)
        u2 == StringsReplace(u1, sHTTPS, <<>>)
        u3 == StringsReplace(u2, sSlashes, <<>>)
        u4 == IF s THEN sHTTPSPrefix \o u3 ELSE sHTTPPrefix \o u3
        c1 == StringsReplace(u4, <<"\n">>, <<>>)
    IN  StringsReplace(c1, <<" ">>, <<>>)

\* SecureUrl that leaves the empty string empty
SecureUrlKeepEmpty(u, s) ==
    IF u = <<>> THEN <<>>
    ELSE LET u1 == StringsReplace(u, sHTTP, <<>>)
             u2 == StringsReplace(u1, sHTTPS, <<>>)
             u3 == StringsReplace(u2, sSlashes, <<>>)
             u4 == IF s THEN sHTTPSPrefix \o u3 ELSE sHTTPPrefix \o u3
             c1 == StringsReplace(u4, <<"\n">>, <<>>)
             c2 == StringsReplace(c1, <<"\t">>, <<>>)
         IN  StringsReplace(c2, <<" ">>, <<>>)

SecureUrl(u, s) ==
    LET u1 == StringsReplace(u, sHTTP, <<>>)
        u2 == StringsReplace(u1, sHTTPS, <<>>)
        u3 == StringsReplace(u2, sSlashes, <<>>)
        u4 == IF s THEN sHTTPSPrefix \o u3 ELSE sHTTPPrefix \o u3
        c1 == StringsReplace(u4, <<"\n">>, <<>>)
        c2 == StringsReplace(c1, <<"\t">>, <<>>)
    IN  StringsReplace(c2, <<" ">>, <<>>)

(***************************************************************************)
(* float64 arithmetic of FilterSize.  The code compares                    *)
(*     math.Abs(q1*100/q - 100.0)                                          *)
(* of two candidates, in IEEE 754 binary64 with round-to-nearest-even.     *)
(* A float is a record: k is "zero", "fin", "inf" or "nan"; a finite       *)
(* non-zero value is m[1].m[2]...m[53] (binary, m[1] = 1) times 2^e.  Only *)
(* non-negative values occur (the model's dimensions are naturals).        *)
(***************************************************************************)
MantBits == 53

FZero == [k |-> "zero", e |-> 0, m |-> <<>>]
FInf == [k |-> "inf", e |-> 0, m |-> <<>>]
FNaN == [k |-> "nan", e |-> 0, m |-> <<>>]

Zeros(n) == [i \in 1..n |-> 0]

\* b + 1 on a bit string (most significant bit first) that is not all ones:
\* a digit flips exactly when every digit after it is 1
IncBits(b) ==
    [i \in 1..Len(b) |->
        IF \A j \in (i + 1)..Len(b) : b[j] = 1 THEN 1 - b[i] ELSE b[i]]

\* Round to nearest, ties to even: bits is an exact binary expansion whose
\* first bit is 1 and has weight 2^e; sticky says that non-zero digits follow
\* the ones given.
RoundBits(e, bits, sticky) ==
    IF Len(bits) <= MantBits
    THEN [k |-> "fin", e |-> e, m |-> bits \o Zeros(MantBits - Len(bits))]
    ELSE LET keep == SubSeq(bits, 1, MantBits)
             rnd == bits[MantBits + 1]
             rest == sticky \/ \E i \in (MantBits + 2)..Len(bits) : bits[i] = 1
             up == rnd = 1 /\ (rest \/ keep[MantBits] = 1)
         IN  IF ~up THEN [k |-> "fin", e |-> e, m |-> keep]
             ELSE IF \A i \in 1..MantBits : keep[i] = 1
                  THEN [k |-> "fin", e |-> e + 1, m |-> <<1>> \o Zeros(MantBits - 1)]
                  ELSE [k |-> "fin", e |-> e, m |-> IncBits(keep)]

\* floor(log2(n/q)) for positive integers n and q
RECURSIVE ExpOf(_, _)
ExpOf(n, q) ==
    IF n < q THEN ExpOf(2 * n, q) - 1
    ELSE IF 2 * q <= n THEN ExpOf(n, 2 * q) + 1
    ELSE 0

\* n/q scaled by a power of two into [1, 2), as a pair <<A, B>>
RECURSIVE ScaleOf(_, _)
ScaleOf(n, q) ==
    IF n < q THEN ScaleOf(2 * n, q)
    ELSE IF 2 * q <= n THEN ScaleOf(n, 2 * q)
    ELSE <<n, q>>

\* 2^i modulo B, by repeated squaring
RECURSIVE Pow2Mod(_, _)
Pow2Mod(i, B) ==
    IF i = 0 THEN 1 % B
    ELSE LET h == Pow2Mod(i \div 2, B)
         IN  (h * h * (IF i % 2 = 1 THEN 2 ELSE 1)) % B

\* the first cnt binary digits of r/B after the point (0 <= r < B), and the
\* remainder they leave: digit i is 1 exactly when twice the remainder left
\* by the first i-1 digits, (r * 2^(i-1)) mod B, reaches B
DivBits(r, B, cnt) ==
    LET remAfter(i) == (r * Pow2Mod(i, B)) % B
    IN  [bits |-> [i \in 1..cnt |-> IF 2 * remAfter(i - 1) >= B THEN 1 ELSE 0],
         rem |-> remAfter(cnt)]

\* float64(n) / float64(q) for naturals n and q that float64 holds exactly
FQuoInt(n, q) ==
    IF q = 0 THEN (IF n = 0 THEN FNaN ELSE FInf)
    ELSE IF n = 0 THEN FZero
    ELSE LET ab == ScaleOf(n, q)
             d == DivBits(ab[1] - ab[2], ab[2], MantBits)
         IN  RoundBits(ExpOf(n, q), <<1>> \o d.bits, d.rem # 0)

\* float64(n) for a natural n below 2^31
Float64(n) == FQuoInt(n, 1)

\* the binary digit of weight 2^p of a finite non-zero float
BitAt(f, p) == IF p <= f.e /\ p > f.e - MantBits THEN f.m[f.e - p + 1] ELSE 0

\* a < b on bit strings of one length
BitsLess(a, b) ==
    \E i \in 1..Len(a) : a[i] < b[i] /\ \A j \in 1..(i - 1) : a[j] = b[j]

\* a - b on bit strings of one length, a >= b: digit i borrows exactly when
\* some less significant digit j has a[j] < b[j] and the digits between are equal
SubBits(a, b) ==
    LET borrow(i) == \E j \in (i + 1)..Len(a) :
                         a[j] < b[j] /\ \A k \in (i + 1)..(j - 1) : a[k] = b[k]
    IN  [i \in 1..Len(a) |-> (a[i] - b[i] - (IF borrow(i) THEN 1 ELSE 0)) % 2]

\* a bit string without its leading zeros
StripZeros(b) ==
    IF \A i \in 1..Len(b) : b[i] = 0 THEN <<>>
    ELSE LET first == CHOOSE i \in 1..Len(b) : b[i] = 1 /\ \A j \in 1..(i - 1) : b[j] = 0
         IN  SubSeq(b, first, Len(b))

\* math.Abs(a - b) for non-negative floats a and b
FAbsSub(a, b) ==
    IF a.k = "nan" \/ b.k = "nan" THEN FNaN
    ELSE IF a.k = "inf" THEN (IF b.k = "inf" THEN FNaN ELSE FInf)
    ELSE IF b.k = "inf" THEN FInf
    ELSE IF a.k = "zero" THEN b
    ELSE IF b.k = "zero" THEN a
    ELSE LET hi == IF a.e > b.e THEN a.e ELSE b.e
             lo == (IF a.e < b.e THEN a.e ELSE b.e) - MantBits + 1
             n == hi - lo + 1
             xa == [i \in 1..n |-> BitAt(a, hi - i + 1)]
             xb == [i \in 1..n |-> BitAt(b, hi - i + 1)]
             diff == IF BitsLess(xa, xb) THEN SubBits(xb, xa) ELSE SubBits(xa, xb)
             sig == StripZeros(diff)
         IN  IF sig = <<>> THEN FZero
             ELSE RoundBits(hi - (n - Len(sig)), sig, FALSE)

\* a < b for non-negative floats
FLess(a, b) ==
    IF a.k = "nan" \/ b.k = "nan" THEN FALSE
    ELSE IF a.k = "inf" THEN FALSE
    ELSE IF b.k = "inf" THEN TRUE
    ELSE IF b.k = "zero" THEN FALSE
    ELSE IF a.k = "zero" THEN TRUE
    ELSE a.e < b.e \/ (a.e = b.e /\ BitsLess(a.m, b.m))

\* qr := math.Abs(float64(area)*100/float64(target) - 100.0)
Deviation(area, target) == FAbsSub(FQuoInt(area * 100, target), Float64(100))

(***************************************************************************)
(* The document tree.  A pointer is <<>> (nil) or <<x>>.                   *)
(***************************************************************************)
IsNil(p) == p = <<>>
Ptr(x) == <<x>>
Deref(p) == p[1]

Impression(id, uri) == [ID |-> id, URI |-> uri]
Viewable(id, uri) == [ID |-> id, URI |-> uri]
CDATAString(c) == [CDATA |-> c]
Tracking(ev, uri) == [Event |-> ev, URI |-> uri]
VideoClick(id, uri) == [ID |-> id, URI |-> uri]
MediaFile(type, bitrate, w, h, uri) ==
    [Type |-> type, Bitrate |-> bitrate, Width |-> w, Height |-> h, URI |-> uri]
VideoClicks(throughs, trackings, customs) ==
    [ClickThroughs |-> throughs, ClickTrackings |-> trackings, CustomClicks |-> customs]
\* MediaCap is cap(MediaFiles), the capacity of the slice's backing array
Linear(trackings, clicks, media, mediacap) ==
    [TrackingEvents |-> trackings, VideoClicks |-> clicks,
     MediaFiles |-> media, MediaCap |-> mediacap]
NonLinearAds(trackings) == [TrackingEvents |-> trackings]
\* a Creative with neither Linear nor NonLinearAds is empty or CompanionAds-only
Creative(linear, nonlinear) == [Linear |-> linear, NonLinearAds |-> nonlinear]
InLine(imps, vimps, creatives, errors) ==
    [Impressions |-> imps, ViewableImpression |-> vimps,
     Creatives |-> creatives, Errors |-> errors]
LinearWrapper(trackings, clicks) == [TrackingEvents |-> trackings, VideoClicks |-> clicks]
CreativeWrapper(linear, nonlinear) == [Linear |-> linear, NonLinearAds |-> nonlinear]
Wrapper(imps, vimps, errors, creatives) ==
    [Impressions |-> imps, ViewableImpression |-> vimps,
     Errors |-> errors, Creatives |-> creatives]
Ad(inline, wrapper) == [InLine |-> inline, Wrapper |-> wrapper]
VAST(ads, errors) == [Ads |-> ads, Errors |-> errors]

\* an error is the chain of its messages, innermost last; nil is <<>>
NoError == <<>>
Errorf(msg, i, e) == <<msg, ToString(i)>> \o e
PANIC == "panic"
Panic(what) == <<PANIC, what>>
IsPanic(e) == e # <<>> /\ e[1] = PANIC

(***************************************************************************)
(* Values the documents and the calls are made of.                         *)
(***************************************************************************)
uEmpty == <<>>
uSpace == <<" ">>
uX == <<"x">>
uHttpX == sHTTPPrefix \o <<"x">>
uHttpsX == sHTTPSPrefix \o <<"x">>
uPaddedHttpX == <<" ">> \o sHTTPPrefix \o <<"x">> \o <<" ">>
uSlashesX == sSlashes \o <<"x">>

\* all sequences over S of length at most n
RECURSIVE SeqsUpTo(_, _)
SeqsUpTo(S, n) ==
    IF n = 0 THEN {<<>>}
    ELSE LET shorter == SeqsUpTo(S, n - 1)
         IN  shorter \cup {Append(q, x) : q \in shorter, x \in S}

mLandscapeBig == MediaFile("mp4", 1, 4, 1, uX)
mLandscapeSmall == MediaFile("webm", 2, 2, 1, uHttpX)
mPortrait == MediaFile("mp4", 3, 1, 2, uX)
mSquare == MediaFile("webm", 4, 2, 2, uX)
MediaPalette == {mLandscapeBig, mLandscapeSmall, mPortrait, mSquare}

mNoURI == MediaFile("mp4", 0, 4, 1, uEmpty)
mNoType == MediaFile("", 0, 4, 1, uX)
mNoWidth == MediaFile("mp4", 0, 0, 1, uX)
mNoHeight == MediaFile("mp4", 0, 1, 0, uX)

\* the FilterSize targets <<w, h>>: landscape, portrait and square, with and without area
Targets == {<<3, 1>>, <<4, 1>>, <<1, 0>>, <<1, 3>>, <<2, 2>>}

\* Deviation for every area the documents and targets can form, computed once
Areas == {t[1] * t[2] : t \in Targets}
             \cup {m.Width * m.Height : m \in MediaPalette \cup {mNoWidth, mNoHeight}}
DeviationTable == [a \in Areas, t \in Areas |-> Deviation(a, t)]


(***************************************************************************)
(* Validate                                                                *)
(***************************************************************************)
MediaFileValidate(media) ==
    IF media.URI = <<>> THEN <<"empty uri">>
    ELSE IF media.Type = "" THEN <<"empty type">>
    ELSE IF media.Width = 0 THEN <<"empty width">>
    ELSE IF media.Height = 0 THEN <<"empty height">>
    ELSE NoError

TrackingValidate(track) == IF track.Event = "" THEN <<"empty event">> ELSE NoError

\* the index (from 1) of the first MediaFile of s that fails Validate, 0 if none
FirstBadMedia(s) ==
    IF \E i \in 1..Len(s) : MediaFileValidate(s[i]) # NoError
    THEN CHOOSE i \in 1..Len(s) :
             /\ MediaFileValidate(s[i]) # NoError
             /\ \A j \in 1..(i - 1) : MediaFileValidate(s[j]) = NoError
    ELSE 0

\* the index (from 1) of the first Tracking of s that fails Validate, 0 if none
FirstBadTrack(s) ==
    IF \E i \in 1..Len(s) : TrackingValidate(s[i]) # NoError
    THEN CHOOSE i \in 1..Len(s) :
             /\ TrackingValidate(s[i]) # NoError
             /\ \A j \in 1..(i - 1) : TrackingValidate(s[j]) = NoError
    ELSE 0

\* FilterURI that drops nothing
FilterURIKeepAll(s) == s

\* the in-place filter `f := s[:0]; for _, x := range s { if x.URI != "" { f =
\* append(f, x) } }`: every write lands at or before the index already read
FilterURI(s) == LET keep(x) == x.URI # <<>> IN SelectSeq(s, keep)

VideoClicksValidate(click) ==
    [ClickThroughs |-> FilterURI(click.ClickThroughs),
     ClickTrackings |-> FilterURI(click.ClickTrackings),
     CustomClicks |-> FilterURI(click.CustomClicks)]

\* LinearValidate with the event names checked before the empty URIs are dropped
LinearValidateEventsFirst(linear) ==
    LET bm == FirstBadMedia(linear.MediaFiles)
        bt == FirstBadTrack(linear.TrackingEvents)
        l1 == [linear EXCEPT !.TrackingEvents = FilterURI(linear.TrackingEvents)]
    IN  IF Len(linear.MediaFiles) = 0 THEN [val |-> linear, err |-> <<"empty media">>]
        ELSE IF bm # 0
             THEN [val |-> linear,
                   err |-> Errorf("bad media", bm - 1, MediaFileValidate(linear.MediaFiles[bm]))]
        ELSE IF bt # 0
             THEN [val |-> linear,
                   err |-> Errorf("bad track", bt - 1, TrackingValidate(linear.TrackingEvents[bt]))]
        ELSE IF ~IsNil(l1.VideoClicks)
             THEN [val |-> [l1 EXCEPT !.VideoClicks = Ptr(VideoClicksValidate(Deref(@)))],
                   err |-> NoError]
        ELSE [val |-> l1, err |-> NoError]

\* Each Validate yields the receiver as the call leaves it and the error.
LinearValidate(linear) ==
    LET bm == FirstBadMedia(linear.MediaFiles)
        l1 == [linear EXCEPT !.TrackingEvents = FilterURI(linear.TrackingEvents)]
        bt == FirstBadTrack(l1.TrackingEvents)
    IN  IF Len(linear.MediaFiles) = 0 THEN [val |-> linear, err |-> <<"empty media">>]
        ELSE IF bm # 0
             THEN [val |-> linear,
                   err |-> Errorf("bad media", bm - 1, MediaFileValidate(linear.MediaFiles[bm]))]
        ELSE IF bt # 0
             THEN [val |-> l1,
                   err |-> Errorf("bad track", bt - 1, TrackingValidate(l1.TrackingEvents[bt]))]
        ELSE IF ~IsNil(l1.VideoClicks)
             THEN [val |-> [l1 EXCEPT !.VideoClicks = Ptr(VideoClicksValidate(Deref(@)))],
                   err |-> NoError]
        ELSE [val |-> l1, err |-> NoError]

NonLinearAdsValidate(nonlinear) == NoError

CreativeValidate(creative) ==
    IF ~IsNil(creative.Linear)
    THEN LET Put(r) == [val |-> [creative EXCEPT !.Linear = Ptr(r.val)], err |-> r.err]
         IN  Put(LinearValidate(Deref(creative.Linear)))
    ELSE IF ~IsNil(creative.NonLinearAds)
         THEN [val |-> creative, err |-> NonLinearAdsValidate(Deref(creative.NonLinearAds))]
    ELSE [val |-> creative, err |-> <<"empty linear/nonlinear">>]

\* for i, c := range inline.Creatives { err := c.Validate(); if err != nil { return ... } }
RECURSIVE ValidateCreatives(_, _)
ValidateCreatives(cs, i) ==
    IF i > Len(cs) THEN [val |-> cs, err |-> NoError]
    ELSE LET Step(r) ==
                 IF r.err # NoError
                 THEN [val |-> [cs EXCEPT ![i] = r.val],
                       err |-> Errorf("bad creative", i - 1, r.err)]
                 ELSE ValidateCreatives([cs EXCEPT ![i] = r.val], i + 1)
         IN  Step(CreativeValidate(cs[i]))

\* FilterTrimURI that trims and drops nothing
TrimURIKeepAll(s) == [i \in 1..Len(s) |-> [s[i] EXCEPT !.URI = TrimSpace(@)]]

\* Impressions and ViewableImpression: kept when the URI is not "", and then trimmed
FilterTrimURI(s) ==
    LET kept == FilterURI(s)
    IN  [i \in 1..Len(kept) |-> [kept[i] EXCEPT !.URI = TrimSpace(@)]]

\* Errors: kept when the CDATA is not ""
FilterCDATA(s) == LET keep(x) == x.CDATA # <<>> IN SelectSeq(s, keep)

InLineValidate(inline) ==
    IF Len(inline.Creatives) = 0 THEN [val |-> inline, err |-> <<"empty creative">>]
    ELSE LET Rest(r) ==
                 IF r.err # NoError
                 THEN [val |-> [inline EXCEPT !.Creatives = r.val], err |-> r.err]
                 ELSE [val |-> [inline EXCEPT !.Creatives = r.val,
                                              !.Impressions = FilterTrimURI(@),
                                              !.Errors = FilterCDATA(@),
                                              !.ViewableImpression = FilterTrimURI(@)],
                       err |-> NoError]
         IN  Rest(ValidateCreatives(inline.Creatives, 1))

WrapperValidate(wrap) ==
    [val |-> [wrap EXCEPT !.Impressions = FilterURI(@),
                          !.ViewableImpression = FilterURI(@)],
     err |-> NoError]

AdValidate(ad) ==
    IF ~IsNil(ad.Wrapper)
    THEN LET Put(r) == [val |-> [ad EXCEPT !.Wrapper = Ptr(r.val)], err |-> r.err]
         IN  Put(WrapperValidate(Deref(ad.Wrapper)))
    ELSE IF ~IsNil(ad.InLine)
         THEN LET Put(r) == [val |-> [ad EXCEPT !.InLine = Ptr(r.val)], err |-> r.err]
              IN  Put(InLineValidate(Deref(ad.InLine)))
    ELSE [val |-> ad, err |-> <<"empty inline and wrapper">>]

\* for i, ad := range v.Ads { err := ad.Validate(); if err != nil { return ... } }
RECURSIVE ValidateAds(_, _)
ValidateAds(ads, i) ==
    IF i > Len(ads) THEN [val |-> ads, err |-> NoError]
    ELSE LET Step(r) ==
                 IF r.err # NoError
                 THEN [val |-> [ads EXCEPT ![i] = r.val],
                       err |-> Errorf("bad ad", i - 1, r.err)]
                 ELSE ValidateAds([ads EXCEPT ![i] = r.val], i + 1)
         IN  Step(AdValidate(ads[i]))

\* VASTValidate that takes a document without ads for valid
VASTValidateNoAdsOK(vast) ==
    IF Len(vast.Ads) = 0 THEN [val |-> vast, err |-> NoError]
    ELSE LET Put(r) == [val |-> [vast EXCEPT !.Ads = r.val], err |-> r.err]
         IN  Put(ValidateAds(vast.Ads, 1))

VASTValidate(vast) ==
    IF Len(vast.Ads) = 0 THEN [val |-> vast, err |-> <<"empty ads">>]
    ELSE LET Put(r) == [val |-> [vast EXCEPT !.Ads = r.val], err |-> r.err]
         IN  Put(ValidateAds(vast.Ads, 1))

(***************************************************************************)
(* SetSecure                                                               *)
(***************************************************************************)
SecureURIs(s, sec) == [i \in 1..Len(s) |-> [s[i] EXCEPT !.URI = SecureUrl(@, sec)]]
SecureCDATAs(s, sec) == [i \in 1..Len(s) |-> [s[i] EXCEPT !.CDATA = SecureUrl(@, sec)]]

LinearSetSecure(linear, sec) ==
    LET l1 == [linear EXCEPT !.TrackingEvents = SecureURIs(@, sec)]
        l2 == IF ~IsNil(l1.VideoClicks)
              THEN [l1 EXCEPT !.VideoClicks =
                       Ptr([Deref(@) EXCEPT !.ClickTrackings = SecureURIs(@, sec),
                                            !.ClickThroughs = SecureURIs(@, sec)])]
              ELSE l1
    IN  [l2 EXCEPT !.MediaFiles = SecureURIs(@, sec)]

CreativeSetSecure(creative, sec) ==
    IF ~IsNil(creative.Linear)
    THEN [creative EXCEPT !.Linear = Ptr(LinearSetSecure(Deref(@), sec))]
    ELSE IF ~IsNil(creative.NonLinearAds)
         THEN [creative EXCEPT !.NonLinearAds =
                  Ptr([Deref(@) EXCEPT !.TrackingEvents = SecureURIs(@, sec)])]
    ELSE creative

InLineSetSecureSkipMedia(inline, sec) ==
    [inline EXCEPT
        !.Creatives = [i \in 1..Len(@) |->
            IF ~IsNil(@[i].Linear)
            THEN [@[i] EXCEPT !.Linear =
                     Ptr([LinearSetSecure(Deref(@), sec) EXCEPT
                             !.MediaFiles = Deref(inline.Creatives[i].Linear).MediaFiles])]
            ELSE CreativeSetSecure(@[i], sec)],
        !.ViewableImpression = SecureURIs(@, sec),
        !.Impressions = SecureURIs(@, sec),
        !.Errors = SecureCDATAs(@, sec)]

InLineSetSecure(inline, sec) ==
    [inline EXCEPT
        !.Creatives = [i \in 1..Len(@) |-> CreativeSetSecure(@[i], sec)],
        !.ViewableImpression = SecureURIs(@, sec),
        !.Impressions = SecureURIs(@, sec),
        !.Errors = SecureCDATAs(@, sec)]

\* the Wrapper branch is empty: its call of Wrapper.SetSecure is commented out
AdSetSecureWrapperToo(ad, sec) ==
    IF ~IsNil(ad.Wrapper)
    THEN [ad EXCEPT !.Wrapper =
             Ptr([Deref(@) EXCEPT !.Impressions = SecureURIs(@, sec),
                                  !.ViewableImpression = SecureURIs(@, sec),
                                  !.Errors = SecureCDATAs(@, sec)])]
    ELSE IF ~IsNil(ad.InLine)
         THEN [ad EXCEPT !.InLine = Ptr(InLineSetSecure(Deref(@), sec))]
    ELSE ad

AdSetSecure(ad, sec) ==
    IF ~IsNil(ad.Wrapper) THEN ad
    ELSE IF ~IsNil(ad.InLine)
         THEN [ad EXCEPT !.InLine = Ptr(InLineSetSecure(Deref(@), sec))]
    ELSE ad

VASTSetSecure(vast, sec) ==
    [Ads |-> [i \in 1..Len(vast.Ads) |-> AdSetSecure(vast.Ads[i], sec)],
     Errors |-> SecureCDATAs(vast.Errors, sec)]

(***************************************************************************)
(* FilterFormat.  media := MediaFiles[:0] shares the backing array of the  *)
(* list the loops read; st is the state of the loops: back is the part of  *)
(* the backing array the range loop reads, media the slice being built,    *)
(* shared whether media still lives in that array, cap its capacity.       *)
(***************************************************************************)
\* the capacity append gives a full slice when it adds one element to it
GrowCap(c) == IF c = 0 THEN 1 ELSE 2 * c

\* media = append(media, m)
AppendMedia(st, m) ==
    LET n == Len(st.media)
    IN  IF n < st.cap
        THEN [st EXCEPT !.media = Append(@, m),
                        !.back = IF st.shared /\ n + 1 <= Len(@)
                                 THEN [@ EXCEPT ![n + 1] = m] ELSE @]
        ELSE [st EXCEPT !.media = Append(@, m), !.shared = FALSE, !.cap = GrowCap(@)]

\* for _, m := range MediaFiles { if m.Type == f { media = append(media, m) } }
RECURSIVE FormatInner(_, _, _)
FormatInner(st, f, i) ==
    IF i > Len(st.back) THEN st
    ELSE FormatInner(IF st.back[i].Type = f THEN AppendMedia(st, st.back[i]) ELSE st,
                     f, i + 1)

\* for _, f := range format { ... }
RECURSIVE FormatOuter(_, _, _)
FormatOuter(st, format, k) ==
    IF k > Len(format) THEN st
    ELSE FormatOuter(FormatInner(st, format[k], 1), format, k + 1)

FormatLoops(linear, format) ==
    FormatOuter([back |-> linear.MediaFiles, media |-> <<>>,
                 shared |-> TRUE, cap |-> linear.MediaCap], format, 1)

\* VASTFilterFormat that stores the filtered list before it tests its length
VASTFilterFormatStoreFirst(vast, format) ==
    IF Len(vast.Ads) = 0 THEN [val |-> vast, err |-> Panic("index out of range")]
    ELSE IF IsNil(vast.Ads[1].InLine) THEN [val |-> vast, err |-> <<"not inline">>]
    ELSE IF Len(Deref(vast.Ads[1].InLine).Creatives) = 0
         THEN [val |-> vast, err |-> Panic("index out of range")]
    ELSE IF IsNil(Deref(vast.Ads[1].InLine).Creatives[1].Linear)
         THEN [val |-> vast, err |-> Panic("nil pointer dereference")]
    ELSE LET linear == Deref(Deref(vast.Ads[1].InLine).Creatives[1].Linear)
             st == FormatLoops(linear, format)
         IN  [val |-> [vast EXCEPT !.Ads[1].InLine[1].Creatives[1].Linear[1] =
                          [@ EXCEPT !.MediaFiles = st.media, !.MediaCap = st.cap]],
              err |-> IF Len(st.media) = 0 THEN <<"empty media by format">> ELSE NoError]

VASTFilterFormat(vast, format) ==
    IF Len(vast.Ads) = 0 THEN [val |-> vast, err |-> Panic("index out of range")]
    ELSE IF IsNil(vast.Ads[1].InLine) THEN [val |-> vast, err |-> <<"not inline">>]
    ELSE IF Len(Deref(vast.Ads[1].InLine).Creatives) = 0
         THEN [val |-> vast, err |-> Panic("index out of range")]
    ELSE IF IsNil(Deref(vast.Ads[1].InLine).Creatives[1].Linear)
         THEN [val |-> vast, err |-> Panic("nil pointer dereference")]
    ELSE LET linear == Deref(Deref(vast.Ads[1].InLine).Creatives[1].Linear)
             st == FormatLoops(linear, format)
         IN  IF Len(st.media) = 0 THEN [val |-> vast, err |-> <<"empty media by format">>]
             ELSE [val |-> [vast EXCEPT !.Ads[1].InLine[1].Creatives[1].Linear[1] =
                               [@ EXCEPT !.MediaFiles = st.media, !.MediaCap = st.cap]],
                   err |-> NoError]

(***************************************************************************)
(* FilterSize                                                              *)
(***************************************************************************)
\* the orientation filter: its appends land at or before the index already read
SizeCandidatesSquareToo(media, w, h) ==
    LET Fits(m) == \/ w - h >= 0 /\ m.Width - m.Height >= 0
                   \/ w - h < 0 /\ m.Width - m.Height < 0
    IN  SelectSeq(media, Fits)

SizeCandidates(media, w, h) ==
    LET Fits(m) == \/ w - h > 0 /\ m.Width - m.Height > 0
                   \/ w - h < 0 /\ m.Width - m.Height < 0
    IN  SelectSeq(media, Fits)

\* qr1 < qr2
Closer(m, best, w, h) ==
    FLess(DeviationTable[m.Width * m.Height, w * h],
          DeviationTable[best.Width * best.Height, w * h])

\* var best = media[0]; for _, m := range media { if qr1 < qr2 { best = m } }
RECURSIVE BestFrom(_, _, _, _, _)
BestFrom(media, i, best, w, h) ==
    IF i > Len(media) THEN best
    ELSE BestFrom(media, i + 1, IF Closer(media[i], best, w, h) THEN media[i] ELSE best, w, h)

VASTFilterSize(vast, w, h) ==
    IF Len(vast.Ads) = 0 THEN [val |-> vast, err |-> Panic("index out of range")]
    ELSE IF IsNil(vast.Ads[1].InLine) THEN [val |-> vast, err |-> <<"not inline">>]
    ELSE IF Len(Deref(vast.Ads[1].InLine).Creatives) = 0
         THEN [val |-> vast, err |-> Panic("index out of range")]
    ELSE IF IsNil(Deref(vast.Ads[1].InLine).Creatives[1].Linear)
         THEN [val |-> vast, err |-> Panic("nil pointer dereference")]
    ELSE LET linear == Deref(Deref(vast.Ads[1].InLine).Creatives[1].Linear)
             media == SizeCandidates(linear.MediaFiles, w, h)
         IN  IF Len(media) = 0 THEN [val |-> vast, err |-> <<"empty media by size">>]
             ELSE LET best == BestFrom(media, 1, media[1], w, h)
                      sized == [best EXCEPT !.Width = w, !.Height = h]
                  IN  [val |-> [vast EXCEPT !.Ads[1].InLine[1].Creatives[1].Linear[1] =
                                    [@ EXCEPT !.MediaFiles = <<sized>>, !.MediaCap = 1]],
                       err |-> NoError]

(***************************************************************************)
(* The documents the pipeline is run on.                                   *)
(***************************************************************************)
tStart == Tracking("start", uHttpX)
tDead == Tracking("", uEmpty)
tNoEvent == Tracking("", uX)
tNoURI == Tracking("complete", uEmpty)

clicksMixed ==
    VideoClicks(<<VideoClick("", uSlashesX)>>,
                <<VideoClick("a", uEmpty), VideoClick("b", uX)>>,
                <<VideoClick("", uHttpX), VideoClick("", uEmpty)>>)

cLinear == Creative(Ptr(Linear(<<tStart, tDead, tNoURI>>, Ptr(clicksMixed),
                               <<mLandscapeSmall, mPortrait>>, 2)), <<>>)
cLinearPlain == Creative(Ptr(Linear(<<>>, <<>>, <<mLandscapeBig>>, 1)), <<>>)
cLinearNoEvent == Creative(Ptr(Linear(<<tStart, tNoEvent>>, <<>>, <<mLandscapeBig>>, 1)), <<>>)
cLinearNoMedia == Creative(Ptr(Linear(<<tStart>>, <<>>, <<>>, 0)), <<>>)
cLinearBadMedia(bad) == Creative(Ptr(Linear(<<>>, <<>>, <<mLandscapeBig, bad>>, 2)), <<>>)
cNonLinear == Creative(<<>>, Ptr(NonLinearAds(<<tStart, tNoEvent, tDead>>)))
cLinearAndNonLinear ==
    Creative(Ptr(Linear(<<tStart>>, <<>>, <<mPortrait>>, 1)), Ptr(NonLinearAds(<<tStart>>)))
cCompanionOnly == Creative(<<>>, <<>>)
\* a dead Tracking ahead of one with a URI and no Event; the latter over no media
cLinearDeadNoEvent ==
    Creative(Ptr(Linear(<<tDead, tStart, tNoEvent>>, <<>>, <<mLandscapeBig>>, 1)), <<>>)
cLinearNoEventNoMedia == Creative(Ptr(Linear(<<tNoEvent>>, <<>>, <<>>, 0)), <<>>)

CreativeLists ==
    {<<>>, <<cLinear>>, <<cLinearPlain>>, <<cLinearNoEvent>>, <<cLinearNoMedia>>,
     <<cNonLinear>>, <<cCompanionOnly>>, <<cLinearAndNonLinear>>,
     <<cNonLinear, cLinear>>, <<cLinear, cCompanionOnly>>, <<cLinearPlain, cLinearNoMedia>>,
     <<cLinearDeadNoEvent>>, <<cLinearNoEventNoMedia>>}
        \cup {<<cLinearBadMedia(bad)>> : bad \in {mNoURI, mNoType, mNoWidth, mNoHeight}}

impsMixed == <<Impression("1", uEmpty), Impression("2", uPaddedHttpX), Impression("3", uX)>>
vimpsMixed == <<Viewable("1", uHttpsX), Viewable("2", uEmpty)>>
errsMixed == <<CDATAString(uEmpty), CDATAString(uHttpX)>>
\* URIs of white space only, and padded ones
impsBlank == <<Impression("4", uSpace), Impression("5", uX)>>
vimpsBlank == <<Viewable("3", uSpace)>>
errsPadded == <<CDATAString(uPaddedHttpX), CDATAString(uEmpty)>>

cwLinear == CreativeWrapper(Ptr(LinearWrapper(<<tStart, tDead>>, Ptr(clicksMixed))), <<>>)
cwNonLinear == CreativeWrapper(<<>>, Ptr(NonLinearAds(<<tStart>>)))

wrapperMixed == Wrapper(impsMixed, vimpsMixed, errsMixed, <<cwLinear, cwNonLinear>>)
wrapperBare == Wrapper(<<>>, <<>>, <<>>, <<>>)

InLines ==
    {InLine(<<>>, <<>>, cs, <<>>) : cs \in CreativeLists}
        \cup {InLine(impsMixed, vimpsMixed, cs, errsMixed) :
                 cs \in {<<cLinear>>, <<cNonLinear>>, <<cLinearNoEvent>>}}
        \cup {InLine(impsBlank, vimpsBlank, <<cLinearPlain>>, errsPadded)}

\* the Ad values: neither variant, a Wrapper, an InLine, and both at once
AdPalette ==
    {Ad(<<>>, <<>>), Ad(<<>>, Ptr(wrapperMixed)), Ad(<<>>, Ptr(wrapperBare)),
     Ad(Ptr(InLine(impsMixed, vimpsMixed, <<cLinear>>, errsMixed)), Ptr(wrapperMixed))}
        \cup {Ad(Ptr(il), <<>>) : il \in InLines}

\* documents of every structure: no ad, one ad, and some pairs of ads
StructureDocs ==
    {VAST(<<>>, <<>>), VAST(<<>>, errsMixed)}
        \cup {VAST(<<a>>, errsMixed) : a \in AdPalette}
        \cup {VAST(<<a, b>>, <<>>) :
                 a \in {Ad(<<>>, <<>>), Ad(<<>>, Ptr(wrapperMixed)),
                        Ad(Ptr(InLine(impsMixed, vimpsMixed, <<cLinear>>, errsMixed)), <<>>),
                        Ad(Ptr(InLine(<<>>, <<>>, <<cLinearNoMedia>>, <<>>)), <<>>),
                        Ad(Ptr(InLine(<<>>, <<>>, <<cNonLinear>>, <<>>)), <<>>)},
                 b \in {Ad(<<>>, <<>>),
                        Ad(Ptr(InLine(impsMixed, <<>>, <<cLinearPlain>>, <<>>)), <<>>)}}

\* documents with one InLine ad whose one Linear creative holds every list of
\* MediaFiles, in a backing array with and without spare capacity
MediaDocs ==
    {VAST(<<Ad(Ptr(InLine(<<>>, <<>>, <<Creative(Ptr(Linear(<<>>, <<>>, ms, Len(ms) + extra)),
                                                 <<>>)>>, <<>>)), <<>>)>>, <<>>) :
        ms \in SeqsUpTo(MediaPalette, MaxMedia), extra \in 0..MaxExtraCap}

\* the format lists handed to FilterFormat: none, one, two in either order, one twice
Formats == {<<>>, <<"mp4">>, <<"webm">>, <<"mp4", "webm">>, <<"webm", "mp4">>,
            <<"mp4", "mp4">>}
NoOp == [name |-> "", sec |-> FALSE, format |-> <<>>, w |-> 0, h |-> 0, tracking |-> <<>>]
noExt == <<>>
noWire == <<>>
noDec == <<>>

\* the first Linear's MediaFiles, <<>> when the document has none
FirstLinear(vast) ==
    IF /\ Len(vast.Ads) > 0
       /\ ~IsNil(vast.Ads[1].InLine)
       /\ Len(Deref(vast.Ads[1].InLine).Creatives) > 0
    THEN Deref(vast.Ads[1].InLine).Creatives[1].Linear
    ELSE <<>>
FirstMedia(vast) ==
    IF IsNil(FirstLinear(vast)) THEN <<>> ELSE Deref(FirstLinear(vast)).MediaFiles

(***************************************************************************)
(* The pipeline: the operations of a document, called in any order.  A     *)
(* panic ends the program.  pre is the document before the last call, op   *)
(* the call, err what it returned.                                         *)
(***************************************************************************)
Init ==
    /\ v \in StructureDocs
    /\ err = NoError
    /\ op = NoOp
    /\ pre = v
    /\ url = <<>> /\ secure = FALSE /\ outs = <<>>
    /\ ext = noExt /\ wire = noWire /\ dec = noDec /\ trail = <<>> /\ orig = v

Validate ==
    /\ ~IsPanic(err)
    /\ LET r == VASTValidate(v)
       IN  v' = r.val /\ err' = r.err
    /\ op' = [NoOp EXCEPT !.name = "Validate"]
    /\ pre' = v
    /\ UNCHANGED <<url, secure, outs, ext, wire, dec, trail, orig>>

SetSecure ==
    /\ ~IsPanic(err)
    /\ \E sec \in BOOLEAN :
          /\ v' = VASTSetSecure(v, sec)
          /\ op' = [NoOp EXCEPT !.name = "SetSecure", !.sec = sec]
    /\ err' = NoError
    /\ pre' = v
    /\ UNCHANGED <<url, secure, outs, ext, wire, dec, trail, orig>>

\* FilterFormat can lengthen the list (a format named twice): the model stops
\* calling it on lists longer than MaxMedia
FilterFormat ==
    /\ ~IsPanic(err)
    /\ Len(FirstMedia(v)) <= MaxMedia
    /\ \E format \in Formats :
          /\ LET r == VASTFilterFormat(v, format)
             IN  v' = r.val /\ err' = r.err
          /\ op' = [NoOp EXCEPT !.name = "FilterFormat", !.format = format]
    /\ pre' = v
    /\ UNCHANGED <<url, secure, outs, ext, wire, dec, trail, orig>>

FilterSize ==
    /\ ~IsPanic(err)
    /\ \E t \in Targets :
          /\ LET r == VASTFilterSize(v, t[1], t[2])
             IN  v' = r.val /\ err' = r.err
          /\ op' = [NoOp EXCEPT !.name = "FilterSize", !.w = t[1], !.h = t[2]]
    /\ pre' = v
    /\ UNCHANGED <<url, secure, outs, ext, wire, dec, trail, orig>>

Next == Validate \/ SetSecure \/ FilterFormat \/ FilterSize

Spec == Init /\ [][Next]_vars

\* the same pipeline on the documents of MediaDocs
InitMedia ==
    /\ v \in MediaDocs
    /\ err = NoError
    /\ op = NoOp
    /\ pre = v
    /\ url = <<>> /\ secure = FALSE /\ outs = <<>>
    /\ ext = noExt /\ wire = noWire /\ dec = noDec /\ trail = <<>> /\ orig = v

SpecMedia == InitMedia /\ [][Next]_vars

(***************************************************************************)
(* SecureUrl as a function of its inputs: applied to an input, then to its *)
(* own result.                                                             *)
(***************************************************************************)
UrlFrags ==
    {sHTTP, sHTTPS, sSlashes, <<"/">>, <<"x">>, <<"h">>, <<"t", "t", "p", ":">>,
     <<"H", "T", "T", "P", ":">>, <<" ">>, <<"\n">>, <<"\t">>}

UrlInputs == {Flatten(fs) : fs \in SeqsUpTo(UrlFrags, MaxFrags)}

emptyDoc == VAST(<<>>, <<>>)

InitUrl ==
    /\ url \in UrlInputs
    /\ secure \in BOOLEAN
    /\ outs = <<>>
    /\ v = emptyDoc /\ err = NoError /\ op = NoOp /\ pre = emptyDoc
    /\ ext = noExt /\ wire = noWire /\ dec = noDec /\ trail = <<>> /\ orig = v

ApplySecureUrl ==
    /\ Len(outs) < MaxApply
    /\ outs' = Append(outs, SecureUrl(IF outs = <<>> THEN url ELSE outs[Len(outs)], secure))
    /\ UNCHANGED <<v, err, op, pre, url, secure, ext, wire, dec, trail, orig>>

NextUrl == ApplySecureUrl

SpecUrl == InitUrl /\ [][NextUrl]_vars

(***************************************************************************)
(* Extension.MarshalXML.  Raw XML (Data, and the body of a wire element)   *)
(* is the sequence of its elements; attributes are a set of <<name,        *)
(* value>> pairs, for the order of a Go map's keys is not fixed.           *)
(***************************************************************************)
Extension(type, name, trackings, data, attributes) ==
    [Type |-> type, Name |-> name, CustomTracking |-> trackings,
     Data |-> data, Attributes |-> attributes]

\* <CustomTracking><Tracking event=..>uri</Tracking>...</CustomTracking>
CustomTrackingElement(trackings) == [tag |-> "CustomTracking", trackings |-> trackings]
\* any other element
OtherElement(tag) == [tag |-> tag, trackings |-> <<>>]

DataBlobs == {<<>>, <<OtherElement("Vendor")>>, <<CustomTrackingElement(<<tNoEvent>>)>>}
AttributeBags == {{}, {<<"x", "1">>}, {<<"type", "z">>, <<"y", "2">>}}

Extensions ==
    {Extension(type, name, trackings, data, attributes) :
        type \in {"", "t"}, name \in {"", "n"},
        trackings \in {<<>>, <<tStart>>, <<tStart, tNoURI>>},
        data \in DataBlobs, attributes \in AttributeBags}

\* the two shapes MarshalXML encodes: `extension` has every field of Extension,
\* `extensionNoCT` has Type, Name and Data only
ShapeExtension(type, name, trackings) ==
    [shape |-> "extension", Type |-> type, Name |-> name,
     CustomTracking |-> trackings, Data |-> <<>>]
ShapeExtensionNoCT(type, name, data) ==
    [shape |-> "extensionNoCT", Type |-> type, Name |-> name,
     CustomTracking |-> <<>>, Data |-> data]

\* an attribute tagged `attr,omitempty`
AttrOmitEmpty(name, value) == IF value = "" THEN {} ELSE {<<name, value>>}

\* enc.EncodeElement(e2, start) by the struct tags of the shape: the attributes
\* of start, then type and name; CustomTracking>Tracking (omitempty), then the
\* innerxml Data verbatim.  The shape `extension` also has the untagged field
\* Attributes map[string]string, which the encoder takes for a child element
\* and rejects, a map being no type it encodes.
EncodeElement(e2, startAttr) ==
    IF e2.shape = "extension"
    THEN [err |-> <<"xml: unsupported type: map[string]string">>, elem |-> <<>>]
    ELSE [err |-> NoError,
          elem |-> Ptr([attrs |-> startAttr \cup AttrOmitEmpty("type", e2.Type)
                                            \cup AttrOmitEmpty("name", e2.Name),
                        body |-> (IF Len(e2.CustomTracking) > 0
                                  THEN <<CustomTrackingElement(e2.CustomTracking)>>
                                  ELSE <<>>) \o e2.Data])]

ExtensionMarshalXML(e) ==
    LET e2 == IF Len(e.CustomTracking) > 0
              THEN ShapeExtension(e.Type, e.Name, e.CustomTracking)
              ELSE ShapeExtensionNoCT(e.Type, e.Name, e.Data)
    IN  EncodeElement(e2, e.Attributes)

InitExt ==
    /\ ext \in {Ptr(e) : e \in Extensions}
    /\ wire = noWire /\ dec = noDec /\ trail = <<>>
    /\ v = emptyDoc /\ err = NoError /\ op = NoOp /\ pre = emptyDoc /\ orig = emptyDoc
    /\ url = <<>> /\ secure = FALSE /\ outs = <<>>

MarshalXML ==
    /\ wire = noWire
    /\ wire' = Ptr(ExtensionMarshalXML(Deref(ext)))
    /\ UNCHANGED <<v, err, op, pre, url, secure, outs, ext, dec, trail, orig>>

(***************************************************************************)
(* Extension.UnmarshalXML.  The decoder reads the attributes of the start  *)
(* element in the order they stand in; the wire element of the model keeps *)
(* them as a set, so the action reads them in every order.                 *)
(***************************************************************************)
RECURSIVE Orders(_)
Orders(S) ==
    IF S = {} THEN {<<>>}
    ELSE UNION {{<<a>> \o r : r \in Orders(S \ {a})} : a \in S}

\* the value a string field tagged `name,attr` ends with: that of the last
\* attribute of that name, "" when there is none
LastAttr(attrs, name) ==
    LET at == {i \in 1..Len(attrs) : attrs[i][1] = name}
    IN  IF at = {} THEN ""
        ELSE attrs[CHOOSE i \in at : \A j \in at : j <= i][2]

\* dec.DecodeElement(&e2, &start) with e2 of the shape `extension`: type and
\* name from the attributes, CustomTracking from the Tracking children of the
\* CustomTracking children, Data the whole inner XML, Attributes left nil
DecodeElement(attrs, body) ==
    [shape |-> "extension",
     Type |-> LastAttr(attrs, "type"),
     Name |-> LastAttr(attrs, "name"),
     CustomTracking |->
         Flatten([i \in 1..Len(body) |->
                     IF body[i].tag = "CustomTracking" THEN body[i].trackings ELSE <<>>]),
     Data |-> body]

\* the loop over the attributes ranges over e.Attributes, the receiver's own
\* bag, and stores each of its entries where it already is
ExtensionUnmarshalXML(e, attrs, body) ==
    LET e2 == DecodeElement(attrs, body)
        e1 == [e EXCEPT !.Type = e2.Type, !.Name = e2.Name,
                        !.CustomTracking = e2.CustomTracking]
        e3 == IF Len(e1.CustomTracking) = 0 THEN [e1 EXCEPT !.Data = e2.Data] ELSE e1
    IN  IF Len(attrs) > 0
        THEN [e3 EXCEPT !.Attributes =
                 @ \cup {a \in e.Attributes : a[1] # "name" /\ a[1] # "type"}]
        ELSE e3

\* the Extension the decoder hands to UnmarshalXML: the zero value
zeroExtension == Extension("", "", <<>>, <<>>, {})

UnmarshalXML ==
    /\ ~IsNil(wire) /\ Deref(wire).err = NoError
    /\ IsNil(dec)
    /\ \E attrs \in Orders(Deref(Deref(wire).elem).attrs) :
          dec' = Ptr(ExtensionUnmarshalXML(zeroExtension, attrs, Deref(Deref(wire).elem).body))
    /\ UNCHANGED <<v, err, op, pre, url, secure, outs, ext, wire, trail, orig>>

NextExt == MarshalXML \/ UnmarshalXML

SpecExt == InitExt /\ [][NextExt]_vars

(***************************************************************************)
(* The pipeline in its order: Validate, then SetSecure(true), then         *)
(* FilterSize(w, h), on a document with one InLine ad whose one Linear     *)
(* creative holds valid MediaFiles and whose Impressions are partly empty. *)
(* trail is the calls made so far.                                         *)
(***************************************************************************)
PipeImpressions ==
    {impsMixed,
     <<Impression("1", uEmpty), Impression("2", uHttpX)>>,
     <<Impression("1", uSlashesX), Impression("2", uEmpty), Impression("3", uSpace)>>}

PipeDocs ==
    {VAST(<<Ad(Ptr(InLine(imps, <<>>, <<Creative(Ptr(Linear(<<>>, <<>>, ms, Len(ms))),
                                                 <<>>)>>, <<>>)), <<>>)>>, <<>>) :
        ms \in SeqsUpTo(MediaPalette, MaxMedia) \ {<<>>}, imps \in PipeImpressions}

InitPipe ==
    /\ v \in PipeDocs
    /\ err = NoError
    /\ op = NoOp
    /\ pre = v
    /\ url = <<>> /\ secure = FALSE /\ outs = <<>>
    /\ ext = noExt /\ wire = noWire /\ dec = noDec /\ trail = <<>> /\ orig = v

PipeValidate ==
    /\ trail = <<>>
    /\ LET r == VASTValidate(v)
       IN  v' = r.val /\ err' = r.err
    /\ op' = [NoOp EXCEPT !.name = "Validate"]
    /\ pre' = v
    /\ trail' = Append(trail, "Validate")
    /\ UNCHANGED <<url, secure, outs, ext, wire, dec, orig>>

PipeSetSecure ==
    /\ trail = <<"Validate">> /\ err = NoError
    /\ v' = VASTSetSecure(v, TRUE)
    /\ op' = [NoOp EXCEPT !.name = "SetSecure", !.sec = TRUE]
    /\ pre' = v
    /\ trail' = Append(trail, "SetSecure")
    /\ UNCHANGED <<err, url, secure, outs, ext, wire, dec, orig>>

PipeFilterSize ==
    /\ trail = <<"Validate", "SetSecure">>
    /\ \E t \in Targets :
          /\ LET r == VASTFilterSize(v, t[1], t[2])
             IN  v' = r.val /\ err' = r.err
          /\ op' = [NoOp EXCEPT !.name = "FilterSize", !.w = t[1], !.h = t[2]]
    /\ pre' = v
    /\ trail' = Append(trail, "FilterSize")
    /\ UNCHANGED <<url, secure, outs, ext, wire, dec, orig>>

NextPipe == PipeValidate \/ PipeSetSecure \/ PipeFilterSize

SpecPipe == InitPipe /\ [][NextPipe]_vars

(***************************************************************************)
(* AddTracking and AddClickTracking: the appends to the first Ad.  c in    *)
(* `for _, c := range Creatives` is a copy whose Linear and NonLinearAds   *)
(* point into the document, so the appends land in the document.           *)
(***************************************************************************)
\* the range loop of AddTracking over the Creatives of an InLine or a Wrapper
AppendTrackings(creatives, tracking) ==
    [i \in 1..Len(creatives) |->
        IF ~IsNil(creatives[i].Linear)
        THEN [creatives[i] EXCEPT !.Linear[1].TrackingEvents = @ \o tracking]
        ELSE IF ~IsNil(creatives[i].NonLinearAds)
        THEN [creatives[i] EXCEPT !.NonLinearAds[1].TrackingEvents = @ \o tracking]
        ELSE creatives[i]]

\* AddTracking whose Wrapper branch does nothing
VASTAddTrackingInLineOnly(vast, tracking) ==
    IF Len(vast.Ads) = 0 THEN [val |-> vast, err |-> Panic("index out of range")]
    ELSE IF ~IsNil(vast.Ads[1].Wrapper) THEN [val |-> vast, err |-> NoError]
    ELSE IF ~IsNil(vast.Ads[1].InLine)
    THEN [val |-> [vast EXCEPT !.Ads[1].InLine[1].Creatives = AppendTrackings(@, tracking)],
          err |-> NoError]
    ELSE [val |-> vast, err |-> NoError]

VASTAddTracking(vast, tracking) ==
    IF Len(vast.Ads) = 0 THEN [val |-> vast, err |-> Panic("index out of range")]
    ELSE IF ~IsNil(vast.Ads[1].Wrapper)
    THEN [val |-> [vast EXCEPT !.Ads[1].Wrapper[1].Creatives = AppendTrackings(@, tracking)],
          err |-> NoError]
    ELSE IF ~IsNil(vast.Ads[1].InLine)
    THEN [val |-> [vast EXCEPT !.Ads[1].InLine[1].Creatives = AppendTrackings(@, tracking)],
          err |-> NoError]
    ELSE [val |-> vast, err |-> NoError]

\* the index (from 1) of the first Creative whose Linear has no VideoClicks, 0 if none
FirstNilClicks(creatives) ==
    LET nil(i) == /\ ~IsNil(creatives[i].Linear)
                  /\ IsNil(Deref(creatives[i].Linear).VideoClicks)
    IN  IF \E i \in 1..Len(creatives) : nil(i)
        THEN CHOOSE i \in 1..Len(creatives) : nil(i) /\ \A j \in 1..(i - 1) : ~nil(j)
        ELSE 0

\* the range loop of AddClickTracking, which stops at the Creative at place stop
AppendClicks(creatives, tracking, stop) ==
    [i \in 1..Len(creatives) |->
        IF ~IsNil(creatives[i].Linear) /\ (stop = 0 \/ i < stop)
        THEN [creatives[i] EXCEPT !.Linear[1].VideoClicks[1].ClickTrackings = @ \o tracking]
        ELSE creatives[i]]

VASTAddClickTracking(vast, tracking) ==
    IF Len(vast.Ads) = 0 THEN [val |-> vast, err |-> Panic("index out of range")]
    ELSE IF ~IsNil(vast.Ads[1].Wrapper) THEN [val |-> vast, err |-> NoError]
    ELSE IF ~IsNil(vast.Ads[1].InLine)
    THEN LET Put(stop) ==
                 [val |-> [vast EXCEPT !.Ads[1].InLine[1].Creatives =
                                           AppendClicks(@, tracking, stop)],
                  err |-> IF stop = 0 THEN NoError ELSE Panic("nil pointer dereference")]
         IN  Put(FirstNilClicks(Deref(vast.Ads[1].InLine).Creatives))
    ELSE [val |-> vast, err |-> NoError]

tPause == Tracking("pause", uX)
clickC == VideoClick("c", uX)
\* the variadic arguments: none, one, two
TrackingArgs == {<<>>, <<tPause>>, <<tNoURI, tPause>>}
ClickArgs == {<<>>, <<clickC>>, <<clickC, VideoClick("", uEmpty)>>}

\* Wrapper creatives of every kind: Linear and NonLinearAds at once, neither, Linear
cwBoth == CreativeWrapper(Ptr(LinearWrapper(<<>>, <<>>)), Ptr(NonLinearAds(<<tStart>>)))
cwCompanionOnly == CreativeWrapper(<<>>, <<>>)
wrapperAll == Wrapper(<<>>, <<>>, <<>>, <<cwBoth, cwCompanionOnly, cwLinear, cwNonLinear>>)

AddDocs == StructureDocs \cup {VAST(<<Ad(<<>>, Ptr(wrapperAll))>>, <<>>)}

InitAdd ==
    /\ v \in AddDocs
    /\ err = NoError
    /\ op = NoOp
    /\ pre = v
    /\ url = <<>> /\ secure = FALSE /\ outs = <<>>
    /\ ext = noExt /\ wire = noWire /\ dec = noDec /\ trail = <<>> /\ orig = v

AddTracking ==
    /\ ~IsPanic(err)
    /\ Len(trail) < MaxAdds
    /\ \E tracking \in TrackingArgs :
          /\ LET r == VASTAddTracking(v, tracking)
             IN  v' = r.val /\ err' = r.err
          /\ op' = [NoOp EXCEPT !.name = "AddTracking", !.tracking = tracking]
    /\ pre' = v
    /\ trail' = Append(trail, "AddTracking")
    /\ UNCHANGED <<url, secure, outs, ext, wire, dec, orig>>

AddClickTracking ==
    /\ ~IsPanic(err)
    /\ Len(trail) < MaxAdds
    /\ \E tracking \in ClickArgs :
          /\ LET r == VASTAddClickTracking(v, tracking)
             IN  v' = r.val /\ err' = r.err
          /\ op' = [NoOp EXCEPT !.name = "AddClickTracking", !.tracking = tracking]
    /\ pre' = v
    /\ trail' = Append(trail, "AddClickTracking")
    /\ UNCHANGED <<url, secure, outs, ext, wire, dec, orig>>

NextAdd == AddTracking \/ AddClickTracking

SpecAdd == InitAdd /\ [][NextAdd]_vars

(***************************************************************************)
(* Validate and SetSecure, each called once, in either order.  orig is the *)
(* document the program started from, trail the calls made so far, err     *)
(* what Validate returned (SetSecure returns nothing).                     *)
(***************************************************************************)
InitOrder ==
    /\ v \in StructureDocs
    /\ err = NoError
    /\ op = NoOp
    /\ pre = v
    /\ url = <<>> /\ secure = FALSE /\ outs = <<>>
    /\ ext = noExt /\ wire = noWire /\ dec = noDec /\ trail = <<>> /\ orig = v

OrderValidate ==
    /\ \A i \in 1..Len(trail) : trail[i] # "Validate"
    /\ LET r == VASTValidate(v)
       IN  v' = r.val /\ err' = r.err
    /\ op' = [NoOp EXCEPT !.name = "Validate"]
    /\ pre' = v
    /\ trail' = Append(trail, "Validate")
    /\ UNCHANGED <<url, secure, outs, ext, wire, dec, orig>>

OrderSetSecure ==
    /\ \A i \in 1..Len(trail) : trail[i] # "SetSecure"
    /\ \E sec \in BOOLEAN :
          /\ v' = VASTSetSecure(v, sec)
          /\ op' = [NoOp EXCEPT !.name = "SetSecure", !.sec = sec]
    /\ pre' = v
    /\ trail' = Append(trail, "SetSecure")
    /\ UNCHANGED <<err, url, secure, outs, ext, wire, dec, orig>>

NextOrder == OrderValidate \/ OrderSetSecure

SpecOrder == InitOrder /\ [][NextOrder]_vars

(***************************************************************************)
(* Properties                                                              *)
(***************************************************************************)
PreLinear == FirstLinear(pre)
PreMedia == FirstMedia(pre)
Scheme(sec) == IF sec THEN sHTTPSPrefix ELSE sHTTPPrefix

MediaValid(m) == m.URI # <<>> /\ m.Type # "" /\ m.Width # 0 /\ m.Height # 0

\* some Ad has an InLine with a Creative whose Linear holds a valid MediaFile
HasValidInLineAd(d) ==
    \E i \in 1..Len(d.Ads) :
        /\ ~IsNil(d.Ads[i].InLine)
        /\ \E j \in 1..Len(Deref(d.Ads[i].InLine).Creatives) :
              LET c == Deref(d.Ads[i].InLine).Creatives[j]
              IN  /\ ~IsNil(c.Linear)
                  /\ \E k \in 1..Len(Deref(c.Linear).MediaFiles) :
                        MediaValid(Deref(c.Linear).MediaFiles[k])

LinearOK(l) ==
    /\ Len(l.MediaFiles) > 0
    /\ \A k \in 1..Len(l.MediaFiles) : MediaValid(l.MediaFiles[k])
    /\ \A k \in 1..Len(l.TrackingEvents) :
          l.TrackingEvents[k].URI # <<>> => l.TrackingEvents[k].Event # ""
CreativeOK(c) == IF ~IsNil(c.Linear) THEN LinearOK(Deref(c.Linear)) ELSE ~IsNil(c.NonLinearAds)
InLineOK(il) ==
    /\ Len(il.Creatives) > 0
    /\ \A j \in 1..Len(il.Creatives) : CreativeOK(il.Creatives[j])
AdOK(ad) == ~IsNil(ad.Wrapper) \/ (~IsNil(ad.InLine) /\ InLineOK(Deref(ad.InLine)))
AllAdsOK(d) == Len(d.Ads) > 0 /\ \A i \in 1..Len(d.Ads) : AdOK(d.Ads[i])

\* C1 as stated: Validate returns no error on every document that has at least
\* one Ad whose InLine has at least one Creative with at least one valid MediaFile.
C1_OneValidAdSuffices ==
    (op.name = "Validate" /\ HasValidInLineAd(pre)) => err = NoError

\* C1, amended: Validate returns no error on every document with at least one
\* Ad in which every Ad is a Wrapper ad or has an InLine with at least one
\* Creative, each Creative having a Linear with at least one MediaFile, only
\* valid MediaFiles and no Tracking of non-empty URI and empty Event, or, with
\* no Linear, a NonLinearAds.
C1_AllValidNoError ==
    (op.name = "Validate" /\ AllAdsOK(pre)) => err = NoError

\* two ads, a valid MediaFile, a Tracking of empty URI and empty Event among them
C1_Witness ==
    /\ op.name = "Validate" /\ AllAdsOK(pre) /\ HasValidInLineAd(pre)
    /\ Len(pre.Ads) = 2
    /\ ~IsNil(PreLinear) /\ \E k \in 1..Len(Deref(PreLinear).TrackingEvents) :
          Deref(PreLinear).TrackingEvents[k] = tDead
    /\ err = NoError

\* C2: Validate returns an error when some Ad has neither InLine nor Wrapper,
\* and when some Ad has both.
C2_ExactlyOneVariant ==
    (/\ op.name = "Validate"
     /\ \E i \in 1..Len(pre.Ads) : IsNil(pre.Ads[i].InLine) = IsNil(pre.Ads[i].Wrapper))
        => err # NoError

\* C3: SecureUrl is idempotent: SecureUrl(SecureUrl(u, s), s) = SecureUrl(u, s).
C3_Idempotent == Len(outs) >= 2 => outs[2] = outs[1]

\* the MediaFiles of s whose Type is one of format, once each, in the order of s
OfFormats(s, format) ==
    LET InFormat(m) == \E k \in 1..Len(format) : format[k] = m.Type
    IN  SelectSeq(s, InFormat)

\* C4: FilterFormat leaves exactly the sub-sequence of the MediaFiles whose Type
\* is among the formats, once each and in the original order, whatever the order
\* of and the repetitions in the formats; it returns "empty media by format"
\* exactly when that sub-sequence is empty.
C4_KeepsSubSequence ==
    (op.name = "FilterFormat" /\ ~IsNil(PreLinear)) =>
        /\ (err = <<"empty media by format">>) <=> (OfFormats(PreMedia, op.format) = <<>>)
        /\ err = NoError => FirstMedia(v) = OfFormats(PreMedia, op.format)

Sign(x) == IF x > 0 THEN 1 ELSE IF x < 0 THEN -1 ELSE 0
Abs(x) == IF x < 0 THEN -x ELSE x

\* the indices of the MediaFiles of s whose orientation is the target's
CandidateIndices(s, w, h) ==
    {i \in 1..Len(s) : Sign(w - h) # 0 /\ Sign(s[i].Width - s[i].Height) = Sign(w - h)}

\* how far the area of m is from the target's
AreaGap(m, w, h) == Abs(m.Width * m.Height - w * h)

\* C5: when a candidate exists, FilterSize leaves exactly one MediaFile: the
\* candidate whose area is nearest the target's, the earliest of them on a tie,
\* with Width and Height set to the target's and every other field as it was.
C5_NearestEarliest ==
    (op.name = "FilterSize" /\ ~IsNil(PreLinear)
        /\ CandidateIndices(PreMedia, op.w, op.h) # {}) =>
        LET cands == CandidateIndices(PreMedia, op.w, op.h)
            win == CHOOSE i \in cands :
                       \A j \in cands :
                           \/ AreaGap(PreMedia[i], op.w, op.h) < AreaGap(PreMedia[j], op.w, op.h)
                           \/ /\ AreaGap(PreMedia[i], op.w, op.h) = AreaGap(PreMedia[j], op.w, op.h)
                              /\ i <= j
        IN  /\ err = NoError
            /\ FirstMedia(v) = <<[PreMedia[win] EXCEPT !.Width = op.w, !.Height = op.h]>>

\* C6: the candidates of FilterSize are exactly the MediaFiles whose Width -
\* Height has the strict sign of w - h: a square MediaFile is never one, a square
\* target has none; FilterSize returns "empty media by size" exactly when there
\* is no candidate, and otherwise leaves one of the candidates, resized.
C6_Orientation ==
    (op.name = "FilterSize" /\ ~IsNil(PreLinear)) =>
        LET cands == CandidateIndices(PreMedia, op.w, op.h)
        IN  /\ (err = <<"empty media by size">>) <=> (cands = {})
            /\ cands # {} => err = NoError
            /\ op.w = op.h => err = <<"empty media by size">>
            /\ err = NoError =>
                  \E i \in cands :
                      /\ PreMedia[i].Width # PreMedia[i].Height
                      /\ FirstMedia(v) =
                            <<[PreMedia[i] EXCEPT !.Width = op.w, !.Height = op.h]>>

\* a landscape target, a list with a square and a landscape MediaFile
C6_Witness ==
    /\ op.name = "FilterSize" /\ ~IsNil(PreLinear) /\ op.w > op.h
    /\ Len(PreMedia) = 2
    /\ PreMedia[1].Width = PreMedia[1].Height
    /\ PreMedia[2].Width > PreMedia[2].Height
    /\ err = NoError
    /\ FirstMedia(v) = <<[PreMedia[2] EXCEPT !.Width = op.w, !.Height = op.h]>>

HasInLineAd(d) == \E i \in 1..Len(d.Ads) : ~IsNil(d.Ads[i].InLine)

\* C7: FilterFormat and FilterSize never end in a runtime fault, on any
\* document; they return nil or one of their named errors, and "not inline"
\* whenever the document has no InLine ad.
C7_NoRuntimeFault ==
    op.name \in {"FilterFormat", "FilterSize"} =>
        /\ ~IsPanic(err)
        /\ err \in {NoError, <<"not inline">>, <<"empty media by format">>,
                    <<"empty media by size">>}
        /\ ~HasInLineAd(pre) => err = <<"not inline">>
URIsOf(s) == [k \in 1..Len(s) |-> s[k].URI]
CDATAsOf(s) == [k \in 1..Len(s) |-> s[k].CDATA]
NoURIs(s) == [k \in 1..Len(s) |-> [s[k] EXCEPT !.URI = <<>>]]
NoCDATAs(s) == [k \in 1..Len(s) |-> [s[k] EXCEPT !.CDATA = <<>>]]
Rewritten(s, sec) == [k \in 1..Len(s) |-> SecureUrl(s[k], sec)]

\* an Ad the code treats as InLine: InLine populated, Wrapper not
IsInLineAd(ad) == IsNil(ad.Wrapper) /\ ~IsNil(ad.InLine)

\* the URI-bearing leaves of a Creative, of its Linear when it has one, else of
\* its NonLinearAds
CreativeLeaves(c) ==
    IF ~IsNil(c.Linear)
    THEN LET l == Deref(c.Linear)
         IN  URIsOf(l.TrackingEvents)
             \o (IF ~IsNil(l.VideoClicks)
                 THEN URIsOf(Deref(l.VideoClicks).ClickTrackings)
                      \o URIsOf(Deref(l.VideoClicks).ClickThroughs)
                 ELSE <<>>)
             \o URIsOf(l.MediaFiles)
    ELSE IF ~IsNil(c.NonLinearAds) THEN URIsOf(Deref(c.NonLinearAds).TrackingEvents)
    ELSE <<>>

InLineLeaves(il) ==
    URIsOf(il.Impressions) \o URIsOf(il.ViewableImpression) \o CDATAsOf(il.Errors)
    \o Flatten([j \in 1..Len(il.Creatives) |-> CreativeLeaves(il.Creatives[j])])

\* a Creative and an InLine with those leaves blanked: what is left is the
\* lists, their lengths and order, and every other field
CreativeFrame(c) ==
    IF ~IsNil(c.Linear)
    THEN [c EXCEPT !.Linear = Ptr(
             [Deref(@) EXCEPT
                 !.TrackingEvents = NoURIs(@),
                 !.MediaFiles = NoURIs(@),
                 !.VideoClicks =
                     IF IsNil(@) THEN @
                     ELSE Ptr([Deref(@) EXCEPT !.ClickTrackings = NoURIs(@),
                                               !.ClickThroughs = NoURIs(@)])])]
    ELSE IF ~IsNil(c.NonLinearAds)
         THEN [c EXCEPT !.NonLinearAds =
                  Ptr([Deref(@) EXCEPT !.TrackingEvents = NoURIs(@)])]
    ELSE c

InLineFrame(il) ==
    [il EXCEPT !.Impressions = NoURIs(@), !.ViewableImpression = NoURIs(@),
               !.Errors = NoCDATAs(@),
               !.Creatives = [j \in 1..Len(@) |-> CreativeFrame(@[j])]]

WrapperLeaves(w) ==
    URIsOf(w.Impressions) \o URIsOf(w.ViewableImpression) \o CDATAsOf(w.Errors)

\* C9 as stated: after SetSecure every Impression, ViewableImpression and Error
\* URI of a Wrapper ad has been rewritten to the chosen scheme, and the URIs in
\* the Wrapper's Creatives are as they were.
C9_WrapperImpressionsRewritten ==
    op.name = "SetSecure" =>
        \A i \in 1..Len(pre.Ads) :
            ~IsNil(pre.Ads[i].Wrapper) =>
                /\ ~IsNil(v.Ads[i].Wrapper)
                /\ WrapperLeaves(Deref(v.Ads[i].Wrapper)) =
                      Rewritten(WrapperLeaves(Deref(pre.Ads[i].Wrapper)), op.sec)
                /\ Deref(v.Ads[i].Wrapper).Creatives = Deref(pre.Ads[i].Wrapper).Creatives

\* C9, amended: SetSecure does not walk Wrapper ads: after the call every
\* Impression, ViewableImpression and Error URI of a Wrapper ad, and every URI
\* inside the Wrapper's Creatives, is as it was.
C9_WrapperUntouched ==
    op.name = "SetSecure" =>
        /\ Len(v.Ads) = Len(pre.Ads)
        /\ \A i \in 1..Len(pre.Ads) :
              ~IsNil(pre.Ads[i].Wrapper) => v.Ads[i] = pre.Ads[i]

\* a Wrapper ad that keeps a leaf without the scheme, in a document whose
\* Errors the call did rewrite
C9_Witness ==
    /\ op.name = "SetSecure" /\ op.sec
    /\ v.Errors # pre.Errors
    /\ \E i \in 1..Len(pre.Ads) :
          /\ ~IsNil(pre.Ads[i].Wrapper)
          /\ Len(Deref(pre.Ads[i].Wrapper).Creatives) > 0
          /\ \E k \in 1..Len(WrapperLeaves(Deref(v.Ads[i].Wrapper))) :
                ~HasPrefix(WrapperLeaves(Deref(v.Ads[i].Wrapper))[k], sHTTPSPrefix)

\* C10: the wire element of an Extension carries CustomTracking and no Data
\* when CustomTracking has an entry, Data and no CustomTracking element of its
\* own when it has none, and the type and name attributes in both cases.
C10_OneShape ==
    ~IsNil(wire) =>
        LET e == Deref(ext)
            w == Deref(wire)
        IN  /\ w.err = NoError
            /\ ~IsNil(w.elem)
            /\ Len(e.CustomTracking) > 0 =>
                  Deref(w.elem).body = <<CustomTrackingElement(e.CustomTracking)>>
            /\ Len(e.CustomTracking) = 0 => Deref(w.elem).body = e.Data
            /\ e.Type # "" => <<"type", e.Type>> \in Deref(w.elem).attrs
            /\ e.Name # "" => <<"name", e.Name>> \in Deref(w.elem).attrs

\* C11: encoding and then decoding an Extension with a CustomTracking entry
\* yields an Extension with empty Data and the same CustomTracking; encoding
\* and then decoding one with empty CustomTracking and non-empty Data yields
\* the same Data and empty CustomTracking.
C11_RoundTrip ==
    /\ (~IsNil(wire) /\ Len(Deref(ext).CustomTracking) > 0) => Deref(wire).err = NoError
    /\ ~IsNil(dec) =>
          LET e == Deref(ext)
              d == Deref(dec)
          IN  /\ Len(e.CustomTracking) > 0 =>
                    d.Data = <<>> /\ d.CustomTracking = e.CustomTracking
              /\ (Len(e.CustomTracking) = 0 /\ e.Data # <<>>) =>
                    d.Data = e.Data /\ d.CustomTracking = <<>>

\* C12: decoding an Extension puts every attribute of the start element other
\* than type and name into Attributes, so an Extension encoded with extra
\* attributes decodes with the same extra attributes.
C12_AttributesMerged ==
    ~IsNil(dec) =>
        /\ Deref(dec).Attributes =
              {a \in Deref(Deref(wire).elem).attrs : a[1] # "type" /\ a[1] # "name"}
        /\ Deref(dec).Attributes =
              {a \in Deref(ext).Attributes : a[1] # "type" /\ a[1] # "name"}

\* C13: SecureUrl(u, TRUE) begins with https:// and SecureUrl(u, FALSE) with
\* http://, whatever the scheme of u and the letter case of its prefix, and the
\* result holds no space, newline or tab.
C13_SchemeAndNoBlank ==
    \A k \in 1..Len(outs) :
        /\ HasPrefix(outs[k], Scheme(secure))
        /\ \A i \in 1..Len(outs[k]) : outs[k][i] \notin {" ", "\n", "\t"}

\* an upper-case scheme and a tab in the input
C13_Witness ==
    /\ Len(outs) >= 1
    /\ HasPrefix(url, <<"H", "T", "T", "P", ":">>)
    /\ \E i \in 1..Len(url) : url[i] = "\t"
    /\ outs[1] = Scheme(secure) \o <<"H", "T", "T", "P", ":">>

FirstImpressions(d) == Deref(d.Ads[1].InLine).Impressions
IDsOf(s) == [k \in 1..Len(s) |-> s[k].ID]
NonEmptyURI(x) == x.URI # <<>>

\* C14: in the order Validate, SetSecure(true), FilterSize(w, h), on a document
\* with one InLine ad, one Linear creative with valid MediaFiles and partly
\* empty Impressions: Validate succeeds and leaves exactly the Impressions
\* whose URI was not empty; SetSecure then makes the URI of each of them start
\* with https://; FilterSize, given a MediaFile of the target's orientation,
\* then leaves one MediaFile, of Width w and Height h.
C14_Pipeline ==
    /\ trail = <<"Validate">> =>
          /\ err = NoError
          /\ Len(FirstImpressions(v)) < Len(FirstImpressions(pre))
          /\ IDsOf(FirstImpressions(v)) =
                IDsOf(SelectSeq(FirstImpressions(pre), NonEmptyURI))
          /\ URIsOf(FirstImpressions(v)) =
                [k \in 1..Len(FirstImpressions(v)) |->
                    TrimSpace(SelectSeq(FirstImpressions(pre), NonEmptyURI)[k].URI)]
    /\ trail = <<"Validate", "SetSecure">> =>
          /\ IDsOf(FirstImpressions(v)) = IDsOf(FirstImpressions(pre))
          /\ \A k \in 1..Len(FirstImpressions(v)) :
                HasPrefix(FirstImpressions(v)[k].URI, sHTTPSPrefix)
    /\ (/\ trail = <<"Validate", "SetSecure", "FilterSize">>
        /\ CandidateIndices(PreMedia, op.w, op.h) # {}) =>
          /\ err = NoError
          /\ Len(FirstMedia(v)) = 1
          /\ FirstMedia(v)[1].Width = op.w /\ FirstMedia(v)[1].Height = op.h
          /\ FirstImpressions(v) = FirstImpressions(pre)
          /\ \A k \in 1..Len(FirstImpressions(v)) :
                HasPrefix(FirstImpressions(v)[k].URI, sHTTPSPrefix)

\* the three calls made, two MediaFiles narrowed to one, an Impression left
C14_Witness ==
    /\ trail = <<"Validate", "SetSecure", "FilterSize">>
    /\ err = NoError
    /\ Len(PreMedia) = 2 /\ Len(FirstMedia(v)) = 1
    /\ FirstMedia(v)[1].Width = op.w /\ FirstMedia(v)[1].Height = op.h
    /\ Len(FirstImpressions(v)) = 2
    /\ FirstImpressions(v)[1].URI = sHTTPSPrefix \o uX

\* C15: Validate on a document with no Ads returns the 'empty ads' error and
\* leaves the document as it was.
C15_EmptyAds ==
    (op.name = "Validate" /\ Len(pre.Ads) = 0) =>
        /\ err = <<"empty ads">>
        /\ v = pre

\* a document with no Ads and with Errors that Validate would filter elsewhere
C15_Witness ==
    /\ op.name = "Validate" /\ Len(pre.Ads) = 0
    /\ \E k \in 1..Len(pre.Errors) : pre.Errors[k].CDATA = uEmpty
    /\ err = <<"empty ads">>
    /\ v = pre

NonEmptyCDATA(x) == x.CDATA # <<>>
TrimmedURIs(s) == [k \in 1..Len(s) |-> [s[k] EXCEPT !.URI = TrimSpace(@)]]
TrimmedCDATAs(s) == [k \in 1..Len(s) |-> [s[k] EXCEPT !.CDATA = TrimSpace(@)]]

\* C16: a successful InLine.Validate leaves Impressions, Errors and
\* ViewableImpression each equal to the original list without the entries of
\* empty URI or CDATA, the others in their order, the white space around each
\* surviving URI trimmed, their other fields as they were.
C16_FilteredAndTrimmed ==
    (op.name = "Validate" /\ err = NoError) =>
        \A i \in 1..Len(pre.Ads) :
            IsInLineAd(pre.Ads[i]) =>
                LET was == Deref(pre.Ads[i].InLine)
                    now == Deref(v.Ads[i].InLine)
                IN  /\ now.Impressions = TrimmedURIs(SelectSeq(was.Impressions, NonEmptyURI))
                    /\ now.ViewableImpression =
                          TrimmedURIs(SelectSeq(was.ViewableImpression, NonEmptyURI))
                    /\ now.Errors = TrimmedCDATAs(SelectSeq(was.Errors, NonEmptyCDATA))

MediaOK(l) ==
    Len(l.MediaFiles) > 0 /\ \A k \in 1..Len(l.MediaFiles) : MediaValid(l.MediaFiles[k])

\* the first Linear is the first thing Validate validates
FirstIsLinear(d) == Len(d.Ads) > 0 /\ IsInLineAd(d.Ads[1]) /\ ~IsNil(FirstLinear(d))

\* the Trackings of the first Linear that have a URI, and the places among
\* them of those without an Event
KeptTrackings(d) == SelectSeq(Deref(FirstLinear(d)).TrackingEvents, NonEmptyURI)
NoEventPlaces(d) == {k \in 1..Len(KeptTrackings(d)) : KeptTrackings(d)[k].Event = ""}
TrackError(k) ==
    <<"bad ad", "0", "bad creative", "0", "bad track", ToString(k - 1), "empty event">>

\* C17 as stated: a Tracking of empty URI is dropped and causes no error, and
\* any Tracking with a URI and no Event makes validation fail with 'empty
\* event' at its place in the filtered list.
C17_AnyNoEventFails ==
    (op.name = "Validate" /\ FirstIsLinear(pre) /\ NoEventPlaces(pre) # {}) =>
        \E k \in NoEventPlaces(pre) : err = TrackError(k)

\* C17, amended: in a Linear whose MediaFiles are not empty and all valid, a
\* Tracking of empty URI is dropped and causes no error even when its Event is
\* empty, and a Tracking with a URI and no Event makes validation fail with
\* 'empty event' at the place of the first such Tracking in the filtered list.
C17_FilterBeforeCheck ==
    (op.name = "Validate" /\ FirstIsLinear(pre)) =>
        /\ (MediaOK(Deref(PreLinear)) /\ NoEventPlaces(pre) # {}) =>
              err = TrackError(CHOOSE k \in NoEventPlaces(pre) :
                                   \A j \in NoEventPlaces(pre) : k <= j)
        /\ NoEventPlaces(pre) = {} =>
              ~HasPrefix(err, <<"bad ad", "0", "bad creative", "0", "bad track">>)
        /\ err = NoError =>
              Deref(FirstLinear(v)).TrackingEvents = KeptTrackings(pre)

\* a dead Tracking ahead of the one that fails: the error names place 1, not 2
C17_Witness ==
    /\ op.name = "Validate" /\ FirstIsLinear(pre)
    /\ Deref(PreLinear).TrackingEvents = <<tDead, tStart, tNoEvent>>
    /\ err = TrackError(2)

\* C19: after a successful Validate no Impression and no ViewableImpression of
\* an InLine ad has an empty URI, whatever the input, URIs of white space
\* included.
C19_NoEmptyURILeft ==
    (op.name = "Validate" /\ err = NoError) =>
        \A i \in 1..Len(v.Ads) :
            IsInLineAd(v.Ads[i]) =>
                /\ \A k \in 1..Len(Deref(v.Ads[i].InLine).Impressions) :
                      Deref(v.Ads[i].InLine).Impressions[k].URI # <<>>
                /\ \A k \in 1..Len(Deref(v.Ads[i].InLine).ViewableImpression) :
                      Deref(v.Ads[i].InLine).ViewableImpression[k].URI # <<>>

\* C20: when FilterFormat or FilterSize returns 'not inline', 'empty media by
\* format' or 'empty media by size', the document is as it was before the call.
C20_ErrorLeavesDocument ==
    (/\ op.name \in {"FilterFormat", "FilterSize"}
     /\ err \in {<<"not inline">>, <<"empty media by format">>, <<"empty media by size">>})
        => /\ v = pre
           /\ FirstMedia(v) = PreMedia

\* formats asked for that no MediaFile of a non-empty list has
C20_Witness ==
    /\ op.name = "FilterFormat" /\ op.format # <<>>
    /\ Len(PreMedia) > 0
    /\ err = <<"empty media by format">>
    /\ FirstMedia(v) = PreMedia


\* the TrackingEvents and click-tracking lists inside the Creatives of a Wrapper
WrapperCreativeLists(w) ==
    [i \in 1..Len(w.Creatives) |->
        [linear |-> IF IsNil(w.Creatives[i].Linear) THEN <<>>
                    ELSE Deref(w.Creatives[i].Linear).TrackingEvents,
         clicks |-> IF IsNil(w.Creatives[i].Linear) THEN <<>>
                    ELSE IF IsNil(Deref(w.Creatives[i].Linear).VideoClicks) THEN <<>>
                    ELSE Deref(Deref(w.Creatives[i].Linear).VideoClicks).ClickTrackings,
         nonlinear |-> IF IsNil(w.Creatives[i].NonLinearAds) THEN <<>>
                       ELSE Deref(w.Creatives[i].NonLinearAds).TrackingEvents]]

FirstIsWrapper(d) == Len(d.Ads) > 0 /\ ~IsNil(d.Ads[1].Wrapper)

\* C18 as stated: when Ads[0] is a Wrapper ad, AddTracking and AddClickTracking
\* leave every TrackingEvents and click-tracking list inside the Wrapper's
\* Creatives unchanged.
C18_WrapperNeverTargeted ==
    (op.name \in {"AddTracking", "AddClickTracking"} /\ FirstIsWrapper(pre))
        => WrapperCreativeLists(Deref(v.Ads[1].Wrapper))
               = WrapperCreativeLists(Deref(pre.Ads[1].Wrapper))

\* C18 amended: when Ads[0] is a Wrapper ad, AddClickTracking leaves the whole
\* document unchanged, while AddTracking appends its arguments to the
\* TrackingEvents of each Wrapper creative's Linear, or of its NonLinearAds when
\* the creative has no Linear, and changes nothing else: no click list, no
\* creative with neither, nothing outside the Wrapper's Creatives.
C18_WrapperGetsTrackingsOnly ==
    FirstIsWrapper(pre) =>
        /\ op.name = "AddClickTracking" => (v = pre /\ err = NoError)
        /\ op.name = "AddTracking" =>
              LET was == Deref(pre.Ads[1].Wrapper).Creatives
                  now == Deref(v.Ads[1].Wrapper).Creatives
              IN  /\ err = NoError
                  /\ [v EXCEPT !.Ads[1].Wrapper[1].Creatives = was] = pre
                  /\ Len(now) = Len(was)
                  /\ \A i \in 1..Len(was) :
                        IF ~IsNil(was[i].Linear)
                        THEN now[i] = [was[i] EXCEPT !.Linear[1].TrackingEvents =
                                                         @ \o op.tracking]
                        ELSE IF ~IsNil(was[i].NonLinearAds)
                        THEN now[i] = [was[i] EXCEPT !.NonLinearAds[1].TrackingEvents =
                                                         @ \o op.tracking]
                        ELSE now[i] = was[i]

\* C18 witness: AddTracking with an argument has been called on a document whose
\* first Ad is a Wrapper with a Linear creative and a NonLinearAds creative, and
\* the Linear's TrackingEvents grew.
C18_Witness ==
    /\ op.name = "AddTracking" /\ op.tracking # <<>>
    /\ FirstIsWrapper(pre)
    /\ \E i, j \in 1..Len(Deref(pre.Ads[1].Wrapper).Creatives) :
          /\ ~IsNil(Deref(pre.Ads[1].Wrapper).Creatives[i].Linear)
          /\ IsNil(Deref(pre.Ads[1].Wrapper).Creatives[j].Linear)
          /\ ~IsNil(Deref(pre.Ads[1].Wrapper).Creatives[j].NonLinearAds)
          /\ Len(Deref(Deref(v.Ads[1].Wrapper).Creatives[i].Linear).TrackingEvents)
                 > Len(Deref(Deref(pre.Ads[1].Wrapper).Creatives[i].Linear).TrackingEvents)

\* the Ads SetSecure works on: an InLine and no Wrapper
Processed(d, i) == IsNil(d.Ads[i].Wrapper) /\ ~IsNil(d.Ads[i].InLine)
BareSchemes == {sHTTPPrefix, sHTTPSPrefix}
CountURI(s) == Cardinality({k \in 1..Len(s) : s[k].URI # <<>>})
CountCDATA(s) == Cardinality({k \in 1..Len(s) : s[k].CDATA # <<>>})
\* list s is list was with nothing dropped and each empty URI now a bare scheme
KeptURIs(s, was) ==
    /\ Len(s) = Len(was)
    /\ \A k \in 1..Len(was) : was[k].URI = <<>> => s[k].URI \in BareSchemes
KeptCDATAs(s, was) ==
    /\ Len(s) = Len(was)
    /\ \A k \in 1..Len(was) : was[k].CDATA = <<>> => s[k].CDATA \in BareSchemes
\* list s has lost the entries of list was that had an empty URI
DroppedURIs(s, was) == Len(s) = CountURI(was)
DroppedCDATAs(s, was) == Len(s) = CountCDATA(was)

\* SetSecure, then Validate: in every processed InLine no Impression,
\* ViewableImpression, Error or Tracking is dropped, the empty ones are bare schemes
SecureFirstKeeps ==
    /\ Len(v.Ads) = Len(orig.Ads)
    /\ \A i \in 1..Len(orig.Ads) :
          Processed(orig, i) =>
              LET was == Deref(orig.Ads[i].InLine)
                  now == Deref(v.Ads[i].InLine)
              IN  /\ KeptURIs(now.Impressions, was.Impressions)
                  /\ KeptURIs(now.ViewableImpression, was.ViewableImpression)
                  /\ KeptCDATAs(now.Errors, was.Errors)
                  /\ Len(now.Creatives) = Len(was.Creatives)
                  /\ \A j \in 1..Len(was.Creatives) :
                        IF ~IsNil(was.Creatives[j].Linear)
                        THEN KeptURIs(Deref(now.Creatives[j].Linear).TrackingEvents,
                                      Deref(was.Creatives[j].Linear).TrackingEvents)
                        ELSE IF ~IsNil(was.Creatives[j].NonLinearAds)
                        THEN KeptURIs(Deref(now.Creatives[j].NonLinearAds).TrackingEvents,
                                      Deref(was.Creatives[j].NonLinearAds).TrackingEvents)
                        ELSE TRUE

\* Validate, then SetSecure: in every processed InLine the empty Impressions,
\* ViewableImpressions, Errors and Trackings of a Linear are gone; nonlinear
\* tells whether the Trackings of NonLinearAds are gone too
ValidateFirstDrops(nonlinear) ==
    /\ Len(v.Ads) = Len(orig.Ads)
    /\ \A i \in 1..Len(orig.Ads) :
          Processed(orig, i) =>
              LET was == Deref(orig.Ads[i].InLine)
                  now == Deref(v.Ads[i].InLine)
              IN  /\ DroppedURIs(now.Impressions, was.Impressions)
                  /\ DroppedURIs(now.ViewableImpression, was.ViewableImpression)
                  /\ DroppedCDATAs(now.Errors, was.Errors)
                  /\ Len(now.Creatives) = Len(was.Creatives)
                  /\ \A j \in 1..Len(was.Creatives) :
                        IF ~IsNil(was.Creatives[j].Linear)
                        THEN DroppedURIs(Deref(now.Creatives[j].Linear).TrackingEvents,
                                         Deref(was.Creatives[j].Linear).TrackingEvents)
                        ELSE IF ~IsNil(was.Creatives[j].NonLinearAds)
                        THEN IF nonlinear
                             THEN DroppedURIs(
                                      Deref(now.Creatives[j].NonLinearAds).TrackingEvents,
                                      Deref(was.Creatives[j].NonLinearAds).TrackingEvents)
                             ELSE KeptURIs(
                                      Deref(now.Creatives[j].NonLinearAds).TrackingEvents,
                                      Deref(was.Creatives[j].NonLinearAds).TrackingEvents)
                        ELSE TRUE

\* C21 as stated: an empty-URI Impression, ViewableImpression, Error or Tracking
\* that SetSecure has processed is not dropped by a subsequent Validate, while
\* Validate followed by SetSecure drops it.
C21_NeverCommute ==
    /\ trail = <<"SetSecure", "Validate">> => SecureFirstKeeps
    /\ trail = <<"Validate", "SetSecure">> => ValidateFirstDrops(TRUE)

\* C21 amended: after SetSecure then Validate, whatever Validate returns, no
\* Impression, ViewableImpression, Error or Tracking of a processed InLine is
\* dropped and the empty ones are the bare scheme; after a Validate that
\* returned no error, then SetSecure, the empty Impressions,
\* ViewableImpressions, Errors and Trackings of a Linear are gone, while the
\* empty Trackings of NonLinearAds are kept and are the bare scheme.
C21_CommuteUnlessValid ==
    /\ trail = <<"SetSecure", "Validate">> => SecureFirstKeeps
    /\ (trail = <<"Validate", "SetSecure">> /\ err = NoError) => ValidateFirstDrops(FALSE)

\* C21 witness: SetSecure then Validate have run on a document whose first Ad
\* is a processed InLine with an empty-URI Impression, which is still there as
\* the bare scheme, while Validate alone on that document returns no error and
\* leaves fewer Impressions.
C21_Witness ==
    /\ trail = <<"SetSecure", "Validate">>
    /\ Len(orig.Ads) > 0 /\ Processed(orig, 1)
    /\ \E k \in 1..Len(Deref(orig.Ads[1].InLine).Impressions) :
          /\ Deref(orig.Ads[1].InLine).Impressions[k].URI = <<>>
          /\ Deref(v.Ads[1].InLine).Impressions[k].URI \in BareSchemes
    /\ VASTValidate(orig).err = NoError
    /\ Len(Deref(VASTValidate(orig).val.Ads[1].InLine).Impressions)
           < Len(Deref(v.Ads[1].InLine).Impressions)
====
